---------------------------- MODULE Spec2Model ----------------------------
(***************************************************************************)
(* Discovery & matching engine of usemypwaV2: the professional's swipe     *)
(* session of HomePage (loadPosts, loadSwipedPosts, handleSwipe, reload),   *)
(* the view counter of a content item (StoryViewerModal, PostsPage) and    *)
(* the gesture classifier of the swipe cards (PostSwipeCard, SwipeCard).   *)
(*                                                                         *)
(* React semantics used throughout: an async function reads the state of   *)
(* the render in which it was created, so every in-flight call carries the *)
(* values it captured when it started; a setState replaces the state.      *)
(***************************************************************************)
EXTENDS Integers, Sequences, FiniteSets, TLC

(***************************************************************************)
(* Bounds of the model.                                                    *)
(***************************************************************************)
NPosts == 2
MaxSwipes == 2
MaxTicks == 1
NClients == 2
MaxViewOps == 3
MaxLeaves == 1

\* null of a text column (ape_code) and of an id or timestamp column
\* (post_id, expires_at): ids and hours start at 1.
NULL == "null"
NONE == 0

(***************************************************************************)
(* Users of the store.  u1 is a professional, u2 an individual, u3 a       *)
(* second professional.                                                    *)
(***************************************************************************)
Users == {"u1", "u2", "u3"}
Professionals == {"u1", "u3"}
PostIds == 1..NPosts
Clients == 1..NClients
ApeCodes == {"62.01Z", "47.11Z"}
PostTypes == {"post", "story"}
MatchActions == {"like", "pass", "super_like"}

\* Story lifetime in hours: Date.now() + 24 * 60 * 60 * 1000 ms.
StoryTTL == 24

VARIABLES
  now,            \* store clock, in hours
  ticks,          \* clock steps taken (bounded)
  dbPosts,        \* table posts: id -> row
  dbMatches,      \* table matches: sequence of rows in insertion order
  dbApe,          \* professional_profiles.ape_code of the signed-in professional
  user,           \* useAuth().user.id of the HomePage session
  mounted,        \* the HomePage effect has run
  posts,          \* HomePage state posts (ids, in list order)
  currentIndex,   \* HomePage state currentIndex
  loading,        \* HomePage state loading
  swipedPosts,    \* HomePage state swipedPosts
  loadPass,       \* the loadPosts call in flight
  swipedLoad,     \* the loadSwipedPosts call in flight
  pendingSwipes,  \* handleSwipe calls awaiting their insert
  nSwipes,        \* handleSwipe calls started (bounded)
  sessionSwiped,  \* history: post ids whose handleSwipe completed in this session
  modal,          \* props of each client's StoryViewerModal: open, story, isOwner
  pagePosts,      \* PostsPage state posts of the signed-in user: rows as loaded
  viewOps,        \* history: completed view increments per post
  lastView,       \* history: the last view operation (n counts them)
  profiles,       \* HomePage state profiles (user ids, in list order)
  isDragging,     \* swipe card state isDragging
  dragStart,      \* swipe card state dragStart
  dragOffset,     \* swipe card state dragOffset
  lastEnd,        \* history: the last end event the card handled and what it did
                  \* ("ignored": early return; "none": no onSwipe; else the action);
                  \* seq flips at every end event
  dbProfiles,     \* table profiles: user id -> row
  profilePass,    \* the loadProfiles call in flight
  appMatches,     \* MainApp state matches
  showMatches,    \* MainApp state showMatches
  matchesLoading, \* MainApp state matchesLoading
  matchesError,   \* MainApp state matchesError (NULL or the message)
  matchesPass,    \* the onNotificationsClick call in flight
  stalePass,      \* the loadPosts call of a HomePage since unmounted, still running
  leaves,         \* times the home tab was left (bounded)
  form,           \* PostsPage state postType and selectedApeCode
  geo,            \* two points and the distance a page's calculateDistance gave for them
  mapPage         \* MapPage state: userLocation, professionals, loading

storeVars == <<now, ticks, dbPosts, dbMatches, dbApe>>
homeVars == <<user, profiles, mounted, posts, currentIndex, loading, swipedPosts,
              loadPass, swipedLoad, pendingSwipes, nSwipes, sessionSwiped>>
viewVars == <<modal, pagePosts, viewOps, lastView, form>>
cardVars == <<isDragging, dragStart, dragOffset, lastEnd>>
indivVars == <<dbProfiles, profilePass>>
appVars == <<appMatches, showMatches, matchesLoading, matchesError, matchesPass>>
tabVars == <<stalePass, leaves>>
geoVars == <<geo, mapPage>>
vars == <<storeVars, homeVars, viewVars, cardVars, indivVars, appVars, tabVars, geoVars>>

(***************************************************************************)
(* Sequence helpers.                                                       *)
(***************************************************************************)
Range(s) == {s[i] : i \in 1..Len(s)}

\* Math.abs
Abs(n) == IF n < 0 THEN -n ELSE n

RECURSIVE FilterSeq(_, _)
FilterSeq(s, keep) ==
  IF s = <<>> THEN <<>>
  ELSE IF Head(s) \in keep THEN <<Head(s)>> \o FilterSeq(Tail(s), keep)
       ELSE FilterSeq(Tail(s), keep)

RemoveAt(s, i) == SubSeq(s, 1, i - 1) \o SubSeq(s, i + 1, Len(s))

\* Ids of `ids` by created_at descending: .order('created_at', {ascending: false}).
RECURSIVE OrderByCreatedDesc(_, _)
OrderByCreatedDesc(ids, table) ==
  IF ids = {} THEN <<>>
  ELSE LET newest == CHOOSE p \in ids :
                       \A q \in ids : table[q].created_at <= table[p].created_at
       IN <<newest>> \o OrderByCreatedDesc(ids \ {newest}, table)

(***************************************************************************)
(* The store.                                                              *)
(***************************************************************************)
\* Rows PostsPage.createPost can have written: a professional's content has
\* no ape_code, an individual's has a code or none ("GENERAL").
RowShapes ==
  {r \in [user_id : Users, type : PostTypes, ape_code : ApeCodes \cup {NULL}] :
     r.user_id \in Professionals => r.ape_code = NULL}

\* Row p was created at hour p; a story expires StoryTTL hours later.
MakeRow(p, shape) ==
  [user_id |-> shape.user_id, type |-> shape.type, ape_code |-> shape.ape_code,
   created_at |-> p,
   expires_at |-> IF shape.type = "story" THEN p + StoryTTL ELSE NONE,
   views |-> 0]

\* Variant: the target taken to be the actor.
MatchRowSelfTarget(u, p, action, table) ==
  [user_id |-> u, target_user_id |-> u, action |-> action,
   matched |-> FALSE, post_id |-> p]

MatchRow(u, p, action, table) ==
  [user_id |-> u, target_user_id |-> table[p].user_id, action |-> action,
   matched |-> FALSE, post_id |-> p]

Tick ==
  /\ ticks < MaxTicks
  /\ ticks' = ticks + 1
  /\ now' = now + 1
  /\ UNCHANGED <<dbPosts, dbMatches, dbApe, homeVars, viewVars, indivVars, appVars, tabVars, geoVars, cardVars>>

(***************************************************************************)
(* HomePage, professional branch.                                          *)
(***************************************************************************)
\* enriched: the author fetches that have returned, in the order they returned.
IdlePass == [pc |-> "idle", swiped |-> <<>>, ape |-> NULL, data |-> <<>>, enriched |-> <<>>]

\* Variant: the results in the order the promises settled.
PromiseAllBySettling(inputs, settled) == settled

\* await Promise.all(inputs.map(async ...)): once every promise has settled, the
\* results in the order of the input array.
PromiseAll(inputs, settled) == inputs

\* Variant: the query without .neq('user_id', user.id).
QueryPostsAnyOwner(u, ape, table) ==
  OrderByCreatedDesc(
    {p \in DOMAIN table : table[p].ape_code = ape \/ table[p].ape_code = NULL},
    table)

\* supabase.from('posts').select('*').neq('user_id', user.id)
\*   .or(`ape_code.eq.${ape},ape_code.is.null`).order('created_at', desc)
QueryPosts(u, ape, table) ==
  OrderByCreatedDesc(
    {p \in DOMAIN table :
       /\ table[p].user_id # u
       /\ (table[p].ape_code = ape \/ table[p].ape_code = NULL)},
    table)

\* enrichedPosts.filter(p => !swipedPosts.includes(p.id))
Unswiped(data, swiped) == FilterSeq(data, Range(data) \ Range(swiped))

\* supabase.from('matches').select('post_id').eq('user_id', user.id).not('post_id','is',null)
QuerySwiped(u, matches) ==
  LET idx == {i \in 1..Len(matches) :
                matches[i].user_id = u /\ matches[i].post_id # NONE}
      RECURSIVE Collect(_)
      Collect(i) == IF i > Len(matches) THEN <<>>
                    ELSE (IF i \in idx THEN <<matches[i].post_id>> ELSE <<>>)
                         \o Collect(i + 1)
  IN Collect(1)

\* loadPosts up to its first await: setLoading(true) and the closure's swipedPosts.
StartLoadPosts(swiped) ==
  /\ loading' = TRUE
  /\ loadPass' = [IdlePass EXCEPT !.pc = "ape", !.swiped = swiped]

\* useEffect of HomePage for a professional: loadPosts(); loadSwipedPosts().
Mount ==
  /\ ~mounted
  /\ user \in Professionals
  /\ mounted' = TRUE
  /\ StartLoadPosts(swipedPosts)
  /\ swipedLoad' = "pending"
  /\ UNCHANGED <<storeVars, user, profiles, posts, currentIndex, swipedPosts,
                 pendingSwipes, nSwipes, sessionSwiped, viewVars, indivVars, appVars, tabVars, geoVars, cardVars>>

\* loadSwipedPosts after its await.
LoadSwipedReturn ==
  /\ swipedLoad = "pending"
  /\ swipedLoad' = "done"
  /\ \E ok \in BOOLEAN :
       swipedPosts' = IF ok THEN QuerySwiped(user, dbMatches) ELSE swipedPosts
  /\ UNCHANGED <<storeVars, user, profiles, mounted, posts, currentIndex, loading,
                 loadPass, pendingSwipes, nSwipes, sessionSwiped, viewVars, indivVars, appVars, tabVars, geoVars, cardVars>>

\* loadPosts after the professional_profiles query.
LoadPostsApeReturn ==
  /\ loadPass.pc = "ape"
  /\ \E ok \in BOOLEAN :
       LET ape == IF ok THEN dbApe ELSE NULL IN
       IF ape = NULL
       THEN /\ posts' = <<>>
            /\ loading' = FALSE
            /\ loadPass' = IdlePass
       ELSE /\ loadPass' = [loadPass EXCEPT !.pc = "posts", !.ape = ape]
            /\ UNCHANGED <<posts, loading>>
  /\ UNCHANGED <<storeVars, user, profiles, mounted, currentIndex, swipedPosts,
                 swipedLoad, pendingSwipes, nSwipes, sessionSwiped, viewVars, indivVars, appVars, tabVars, geoVars, cardVars>>

\* Variant: the error branch returning without setLoading(false).
LoadPostsQueryReturnNoClear ==
  /\ loadPass.pc = "posts"
  /\ \E ok \in BOOLEAN :
       IF ok
       THEN /\ loadPass' = [loadPass EXCEPT
                              !.pc = "enrich",
                              !.data = QueryPosts(user, loadPass.ape, dbPosts)]
            /\ UNCHANGED loading
       ELSE /\ loadPass' = IdlePass
            /\ UNCHANGED loading
  /\ UNCHANGED <<storeVars, user, profiles, mounted, posts, currentIndex, swipedPosts,
                 swipedLoad, pendingSwipes, nSwipes, sessionSwiped, viewVars, indivVars,
                 appVars, tabVars, geoVars, cardVars>>

\* loadPosts after the posts query: an error ends the pass, data starts the
\* per-post author fetches.
LoadPostsQueryReturn ==
  /\ loadPass.pc = "posts"
  /\ \E ok \in BOOLEAN :
       IF ok
       THEN /\ loadPass' = [loadPass EXCEPT
                              !.pc = "enrich",
                              !.data = QueryPosts(user, loadPass.ape, dbPosts)]
            /\ UNCHANGED loading
       ELSE /\ loading' = FALSE
            /\ loadPass' = IdlePass
  /\ UNCHANGED <<storeVars, user, profiles, mounted, posts, currentIndex, swipedPosts,
                 swipedLoad, pendingSwipes, nSwipes, sessionSwiped, viewVars, indivVars, appVars, tabVars, geoVars, cardVars>>

\* One author fetch of Promise.all returns.
EnrichReturn(p) ==
  /\ loadPass.pc = "enrich"
  /\ p \in Range(loadPass.data) \ Range(loadPass.enriched)
  /\ loadPass' = [loadPass EXCEPT !.enriched = Append(@, p)]
  /\ UNCHANGED <<storeVars, user, profiles, mounted, posts, currentIndex, loading,
                 swipedPosts, swipedLoad, pendingSwipes, nSwipes, sessionSwiped, viewVars, indivVars, appVars, tabVars, geoVars, cardVars>>

\* Variant: the list set as soon as one author fetch has returned.
LoadPostsFinishPartial ==
  /\ loadPass.pc = "enrich"
  /\ loadPass.enriched # <<>>
  /\ posts' = Unswiped(FilterSeq(loadPass.data, Range(loadPass.enriched)), loadPass.swiped)
  /\ loading' = FALSE
  /\ loadPass' = IdlePass
  /\ UNCHANGED <<storeVars, user, profiles, mounted, currentIndex, swipedPosts,
                 swipedLoad, pendingSwipes, nSwipes, sessionSwiped, viewVars, indivVars,
                 appVars, tabVars, geoVars, cardVars>>

\* Promise.all resolved: filter with the captured swipedPosts, setPosts, setLoading(false).
LoadPostsFinish ==
  /\ loadPass.pc = "enrich"
  /\ Range(loadPass.enriched) = Range(loadPass.data)
  /\ posts' = Unswiped(PromiseAll(loadPass.data, loadPass.enriched), loadPass.swiped)
  /\ loading' = FALSE
  /\ loadPass' = IdlePass
  /\ UNCHANGED <<storeVars, user, profiles, mounted, currentIndex, swipedPosts,
                 swipedLoad, pendingSwipes, nSwipes, sessionSwiped, viewVars, indivVars, appVars, tabVars, geoVars, cardVars>>

\* HomePage renders a swipe card: not loading and a current candidate exists
\* (PostSwipeCard for a professional, SwipeCard for an individual).
CardShown ==
  /\ mounted /\ ~loading
  /\ IF user \in Professionals THEN currentIndex < Len(posts)
     ELSE currentIndex < Len(profiles)

\* The state of the card after a HomePage update: kept while the card stays
\* rendered; once HomePage stops rendering it the component is unmounted, and
\* the next mount starts from the useState defaults.
CardAfter ==
  IF CardShown'
  THEN UNCHANGED <<isDragging, dragStart, dragOffset>>
  ELSE /\ isDragging' = FALSE
       /\ dragStart' = [x |-> 0, y |-> 0]
       /\ dragOffset' = [x |-> 0, y |-> 0]

\* handleSwipe up to its await (professional) or to its end (individual): the
\* guards and the values of this render.  Only the HomePage state is set here.
HandleSwipe(action) ==
  IF user \in Professionals
  THEN /\ currentIndex < Len(posts)
       /\ nSwipes < MaxSwipes
       /\ nSwipes' = nSwipes + 1
       /\ pendingSwipes' = Append(pendingSwipes,
            [index |-> currentIndex, post |-> posts[currentIndex + 1],
             action |-> action, swiped |-> swipedPosts])
       /\ UNCHANGED <<user, profiles, mounted, posts, currentIndex, loading,
                      swipedPosts, loadPass, swipedLoad, sessionSwiped>>
  ELSE /\ currentIndex < Len(profiles)
       /\ nSwipes < MaxSwipes
       /\ nSwipes' = nSwipes + 1
       /\ currentIndex' = currentIndex + 1
       /\ UNCHANGED <<user, profiles, mounted, posts, loading, swipedPosts,
                      loadPass, swipedLoad, pendingSwipes, sessionSwiped>>

\* A button of the card: onClick={() => onSwipe(action)}.
ClickSwipe(action) ==
  /\ CardShown
  /\ HandleSwipe(action)
  /\ CardAfter
  /\ UNCHANGED <<storeVars, viewVars, indivVars, appVars, tabVars, geoVars, lastEnd>>

\* Variant: handleSwipe returning on the insert error.
InsertReturnBlocking(i) ==
  /\ i \in 1..Len(pendingSwipes)
  /\ LET s == pendingSwipes[i] IN
       \E ok \in BOOLEAN :
         IF ok
         THEN /\ dbMatches' = Append(dbMatches, MatchRow(user, s.post, s.action, dbPosts))
              /\ swipedPosts' = Append(s.swiped, s.post)
              /\ currentIndex' = s.index + 1
              /\ sessionSwiped' = sessionSwiped \cup {s.post}
         ELSE UNCHANGED <<dbMatches, swipedPosts, currentIndex, sessionSwiped>>
  /\ pendingSwipes' = RemoveAt(pendingSwipes, i)
  /\ UNCHANGED <<now, ticks, dbPosts, dbApe, user, profiles, mounted, posts, loading,
                 loadPass, swipedLoad, nSwipes, viewVars, indivVars, appVars, tabVars, geoVars, lastEnd>>
  /\ CardAfter

\* handleSwipe after the insert: the error is only logged.
InsertReturn(i) ==
  /\ i \in 1..Len(pendingSwipes)
  /\ LET s == pendingSwipes[i] IN
       /\ \E ok \in BOOLEAN :
            dbMatches' = IF ok THEN Append(dbMatches, MatchRow(user, s.post, s.action, dbPosts))
                         ELSE dbMatches
       /\ swipedPosts' = Append(s.swiped, s.post)
       /\ currentIndex' = s.index + 1
       /\ sessionSwiped' = sessionSwiped \cup {s.post}
  /\ pendingSwipes' = RemoveAt(pendingSwipes, i)
  /\ UNCHANGED <<now, ticks, dbPosts, dbApe, user, profiles, mounted, posts, loading,
                 loadPass, swipedLoad, nSwipes, viewVars, indivVars, appVars, tabVars, geoVars, lastEnd>>
  /\ CardAfter

\* "Recharger": setCurrentIndex(0); loadPosts().
Reload ==
  /\ mounted /\ ~loading /\ currentIndex >= Len(posts)
  /\ currentIndex' = 0
  /\ StartLoadPosts(swipedPosts)
  /\ UNCHANGED <<storeVars, user, profiles, mounted, posts, swipedPosts, swipedLoad,
                 pendingSwipes, nSwipes, sessionSwiped, viewVars, indivVars, appVars, tabVars, geoVars, cardVars>>

(***************************************************************************)
(* HomePage in MainApp: {activeTab === 'home' && <HomePage />}.  Leaving   *)
(* the tab unmounts the page; its async calls run on, and their setState   *)
(* calls have no component to update.                                      *)
(***************************************************************************)
\* setActiveTab(another tab) while no insert and no loadProfiles is in flight:
\* the page is unmounted with a loadPosts call possibly running.
LeaveHome ==
  /\ mounted
  /\ leaves < MaxLeaves
  /\ user \in Professionals
  /\ pendingSwipes = <<>> /\ profilePass.pc = "idle"
  /\ stalePass.pc \in {"idle", "done"}
  /\ leaves' = leaves + 1
  /\ stalePass' = loadPass
  /\ mounted' = FALSE
  /\ posts' = <<>>
  /\ profiles' = <<>>
  /\ currentIndex' = 0
  /\ loading' = TRUE
  /\ swipedPosts' = <<>>
  /\ loadPass' = IdlePass
  /\ swipedLoad' = "idle"
  /\ isDragging' = FALSE
  /\ dragStart' = [x |-> 0, y |-> 0]
  /\ dragOffset' = [x |-> 0, y |-> 0]
  /\ UNCHANGED <<storeVars, user, pendingSwipes, nSwipes, sessionSwiped, lastEnd,
                 viewVars, indivVars, appVars, geoVars>>

\* The awaits of the unmounted page's loadPosts, as in the LoadPosts* steps;
\* setPosts and setLoading are calls on an unmounted component.
StaleApeReturn ==
  /\ stalePass.pc = "ape"
  /\ \E ok \in BOOLEAN :
       stalePass' = IF ok /\ dbApe # NULL
                    THEN [stalePass EXCEPT !.pc = "posts", !.ape = dbApe]
                    ELSE [IdlePass EXCEPT !.pc = "done"]
  /\ UNCHANGED <<storeVars, homeVars, viewVars, cardVars, indivVars, appVars, leaves,
                 geoVars>>

StaleQueryReturn ==
  /\ stalePass.pc = "posts"
  /\ \E ok \in BOOLEAN :
       stalePass' = IF ok
                    THEN [stalePass EXCEPT
                            !.pc = "enrich",
                            !.data = QueryPosts(user, stalePass.ape, dbPosts)]
                    ELSE [IdlePass EXCEPT !.pc = "done"]
  /\ UNCHANGED <<storeVars, homeVars, viewVars, cardVars, indivVars, appVars, leaves,
                 geoVars>>

StaleEnrichReturn(p) ==
  /\ stalePass.pc = "enrich"
  /\ p \in Range(stalePass.data) \ Range(stalePass.enriched)
  /\ stalePass' = [stalePass EXCEPT !.enriched = Append(@, p)]
  /\ UNCHANGED <<storeVars, homeVars, viewVars, cardVars, indivVars, appVars, leaves,
                 geoVars>>

StaleFinish ==
  /\ stalePass.pc = "enrich"
  /\ Range(stalePass.enriched) = Range(stalePass.data)
  /\ stalePass' = [IdlePass EXCEPT !.pc = "done"]
  /\ UNCHANGED <<storeVars, homeVars, viewVars, cardVars, indivVars, appVars, leaves,
                 geoVars>>

InitTab ==
  /\ stalePass = IdlePass
  /\ leaves = 0

(***************************************************************************)
(* HomePage, individual branch: loadProfiles.                              *)
(***************************************************************************)
\* let distance: number | undefined
NoDistance == -1

\* MapPage useState defaults.
\* A location { lat, lng } is the pair <<lat, lng>>; null is the empty tuple.
NoLocation == <<>>

\* passes: the reference location of each loadProfessionals call in flight;
\* data: the rows of the query whose result was last set (retrieval order).
InitMapPage ==
  [mounted |-> FALSE, geoPending |-> FALSE, userLocation |-> NoLocation, passes |-> <<>>,
   professionals |-> <<>>, loading |-> TRUE, data |-> <<>>]

InitGeo ==
  /\ geo = [a |-> [lat |-> 0, lon |-> 0], b |-> [lat |-> 0, lon |-> 0],
            page |-> "none", km |-> NoDistance]
  /\ mapPage = InitMapPage

\* Coordinates: every located user is on the meridian of longitude 2; a
\* latitude of 0 stands for a missing coordinate (the code tests truthiness).
Longitude == 2
Latitudes == {0, 45, 48, 49}

\* Fixed-point trigonometry, scaled by Scale, on whole degrees.
Scale == 10000

\* Math.sin(d / 2) * Math.sin(d / 2) for d = 0..180 degrees (entry d + 1).
HavTable ==
  <<0, 1, 3, 7, 12, 19, 27, 37, 49, 62, 76, 92, 109, 128, 149, 170, 194,
    218, 245, 272, 302, 332, 364, 397, 432, 468, 506, 545, 585, 627, 670,
    714, 760, 807, 855, 904, 955, 1007, 1060, 1114, 1170, 1226, 1284, 1343,
    1403, 1464, 1527, 1590, 1654, 1720, 1786, 1853, 1922, 1991, 2061, 2132,
    2204, 2277, 2350, 2425, 2500, 2576, 2653, 2730, 2808, 2887, 2966, 3046,
    3127, 3208, 3290, 3372, 3455, 3538, 3622, 3706, 3790, 3875, 3960, 4046,
    4132, 4218, 4304, 4391, 4477, 4564, 4651, 4738, 4826, 4913, 5000, 5087,
    5174, 5262, 5349, 5436, 5523, 5609, 5696, 5782, 5868, 5954, 6040, 6125,
    6210, 6294, 6378, 6462, 6545, 6628, 6710, 6792, 6873, 6954, 7034, 7113,
    7192, 7270, 7347, 7424, 7500, 7575, 7650, 7723, 7796, 7868, 7939, 8009,
    8078, 8147, 8214, 8280, 8346, 8410, 8473, 8536, 8597, 8657, 8716, 8774,
    8830, 8886, 8940, 8993, 9045, 9096, 9145, 9193, 9240, 9286, 9330, 9373,
    9415, 9455, 9494, 9532, 9568, 9603, 9636, 9668, 9698, 9728, 9755, 9782,
    9806, 9830, 9851, 9872, 9891, 9908, 9924, 9938, 9951, 9963, 9973, 9981,
    9988, 9993, 9997, 9999, 10000>>

\* Math.cos for 0..90 degrees (entry d + 1).
CosTable ==
  <<10000, 9998, 9994, 9986, 9976, 9962, 9945, 9925, 9903, 9877, 9848,
    9816, 9781, 9744, 9703, 9659, 9613, 9563, 9511, 9455, 9397, 9336, 9272,
    9205, 9135, 9063, 8988, 8910, 8829, 8746, 8660, 8572, 8480, 8387, 8290,
    8192, 8090, 7986, 7880, 7771, 7660, 7547, 7431, 7314, 7193, 7071, 6947,
    6820, 6691, 6561, 6428, 6293, 6157, 6018, 5878, 5736, 5592, 5446, 5299,
    5150, 5000, 4848, 4695, 4540, 4384, 4226, 4067, 3907, 3746, 3584, 3420,
    3256, 3090, 2924, 2756, 2588, 2419, 2250, 2079, 1908, 1736, 1564, 1392,
    1219, 1045, 872, 698, 523, 349, 175, 0>>

\* Math.sin(x / 2) * Math.sin(x / 2), x = d * Math.PI / 180
SinHalfSquared(d) ==
  LET r == Abs(d) % 360 IN HavTable[(IF r <= 180 THEN r ELSE 360 - r) + 1]

\* Math.cos(lat * Math.PI / 180), -90 <= lat <= 90
Cos(lat) == CosTable[Abs(lat) + 1]

\* The product of two scaled numbers.
Times(x, y) == (x * y) \div Scale

\* 2 * Math.atan2(Math.sqrt(a), Math.sqrt(1 - a)), in whole degrees: the least
\* angle whose haversine reaches a.
CentralAngle(a) ==
  IF a >= HavTable[181] THEN 180
  ELSE CHOOSE k \in 0..180 :
         /\ HavTable[k + 1] >= a
         /\ \A j \in 0..(k - 1) : HavTable[j + 1] < a

\* R * c for c degrees in radians: 6371 * c * PI / 180, in whole km.
EarthArc(c) == (6371 * c * 314) \div 18000

\* Variant: the cosine of the first latitude used for both points.
calculateDistanceOneCosine(lat1, lon1, lat2, lon2) ==
  LET dLat == lat2 - lat1
      dLon == lon2 - lon1
      a == SinHalfSquared(dLat)
             + Times(Times(Cos(lat1), Cos(lat1)), SinHalfSquared(dLon))
  IN EarthArc(CentralAngle(a))

\* HomePage.calculateDistance (haversine).
calculateDistance(lat1, lon1, lat2, lon2) ==
  LET dLat == lat2 - lat1
      dLon == lon2 - lon1
      a == SinHalfSquared(dLat)
             + Times(Times(Cos(lat1), Cos(lat2)), SinHalfSquared(dLon))
  IN EarthArc(CentralAngle(a))

\* MapPage.calculateDistance
calculateDistanceMap(lat1, lon1, lat2, lon2) ==
  LET dLat == lat2 - lat1
      dLon == lon2 - lon1
      a == SinHalfSquared(dLat)
             + Times(Times(Cos(lat1), Cos(lat2)), SinHalfSquared(dLon))
  IN EarthArc(CentralAngle(a))

\* DiscoverPage.calculateDistance
calculateDistanceDiscover(lat1, lon1, lat2, lon2) ==
  LET dLat == lat2 - lat1
      dLon == lon2 - lon1
      a == SinHalfSquared(dLat)
             + Times(Times(Cos(lat1), Cos(lat2)), SinHalfSquared(dLon))
  IN EarthArc(CentralAngle(a))

\* if (profile?.latitude && profile?.longitude && prof.latitude && prof.longitude)
EntryDistance(viewer, prof) ==
  IF /\ viewer.latitude # 0 /\ viewer.longitude # 0
     /\ prof.latitude # 0 /\ prof.longitude # 0
  THEN calculateDistance(viewer.latitude, viewer.longitude,
                         prof.latitude, prof.longitude)
  ELSE NoDistance

\* One entry of the state profiles.
Entry(id, distance) == [id |-> id, distance |-> distance]

IdleProfilePass == [pc |-> "idle", postIds |-> {}, ids |-> <<>>, data |-> <<>>, enriched |-> {}]

\* supabase.from('posts').select('id').eq('user_id', user.id)
QueryOwnPosts(u, table) == {p \in DOMAIN table : table[p].user_id = u}

\* Variant: the matches query without the target_user_id and post_id filters.
RECURSIVE QueryLikersOfAnyone(_, _, _)
QueryLikersOfAnyone(u, postIds, matches) ==
  IF matches = <<>> THEN <<>>
  ELSE (IF Head(matches).post_id # NONE THEN <<Head(matches).user_id>> ELSE <<>>)
       \o QueryLikersOfAnyone(u, postIds, Tail(matches))

\* supabase.from('matches').select('user_id, post_id').not('post_id','is',null)
\*   .eq('target_user_id', user.id).in('post_id', postIds), then m => m.user_id
RECURSIVE QueryLikers(_, _, _)
QueryLikers(u, postIds, matches) ==
  IF matches = <<>> THEN <<>>
  ELSE LET m == Head(matches) IN
       (IF m.post_id # NONE /\ m.target_user_id = u /\ m.post_id \in postIds
        THEN <<m.user_id>> ELSE <<>>)
       \o QueryLikers(u, postIds, Tail(matches))

\* .filter((id, index, self) => self.indexOf(id) === index)
RECURSIVE Distinct(_)
Distinct(ids) ==
  IF ids = <<>> THEN <<>>
  ELSE LET rest == Distinct(SubSeq(ids, 1, Len(ids) - 1))
           last == ids[Len(ids)]
       IN IF last \in Range(rest) THEN rest ELSE Append(rest, last)

\* The orders a query without .order() can return the rows of S in.
Orderings(S) ==
  {f \in [1..Cardinality(S) -> S] : \A i, j \in 1..Cardinality(S) : f[i] = f[j] => i = j}

\* supabase.from('profiles').select('*').in('id', professionalIds)
\*   .in('user_type', ['professional', 'professionnel'])
QueryProfiles(ids, rows) ==
  Orderings({p \in DOMAIN rows : p \in Range(ids) /\ rows[p].user_type = "professional"})

\* loadProfiles up to its first await.
StartLoadProfiles ==
  /\ loading' = TRUE
  /\ profilePass' = [IdleProfilePass EXCEPT !.pc = "posts"]

\* useEffect of HomePage for an individual: loadProfiles().
MountIndividual ==
  /\ ~mounted
  /\ user \notin Professionals
  /\ mounted' = TRUE
  /\ StartLoadProfiles
  /\ UNCHANGED <<storeVars, user, profiles, posts, currentIndex, swipedPosts, loadPass,
                 swipedLoad, pendingSwipes, nSwipes, sessionSwiped, viewVars, cardVars,
                 dbProfiles, appVars, tabVars, geoVars>>

\* Variant: no early return on an empty userPosts.
LoadProfilesPostsReturnNoEmptyCheck ==
  /\ profilePass.pc = "posts"
  /\ \E ok \in BOOLEAN :
       LET own == QueryOwnPosts(user, dbPosts) IN
       IF ~ok
       THEN /\ loading' = FALSE
            /\ profilePass' = IdleProfilePass
            /\ UNCHANGED profiles
       ELSE /\ profilePass' = [profilePass EXCEPT !.pc = "matches", !.postIds = own]
            /\ UNCHANGED <<profiles, loading>>
  /\ UNCHANGED <<storeVars, user, mounted, posts, currentIndex, swipedPosts, loadPass,
                 swipedLoad, pendingSwipes, nSwipes, sessionSwiped, viewVars, cardVars,
                 dbProfiles, appVars, tabVars, geoVars>>

\* loadProfiles after the query of the user's own posts.
LoadProfilesPostsReturn ==
  /\ profilePass.pc = "posts"
  /\ \E ok \in BOOLEAN :
       LET own == QueryOwnPosts(user, dbPosts) IN
       IF ~ok
       THEN /\ loading' = FALSE
            /\ profilePass' = IdleProfilePass
            /\ UNCHANGED profiles
       ELSE IF own = {}
       THEN /\ profiles' = <<>>
            /\ loading' = FALSE
            /\ profilePass' = IdleProfilePass
       ELSE /\ profilePass' = [profilePass EXCEPT !.pc = "matches", !.postIds = own]
            /\ UNCHANGED <<profiles, loading>>
  /\ UNCHANGED <<storeVars, user, mounted, posts, currentIndex, swipedPosts, loadPass,
                 swipedLoad, pendingSwipes, nSwipes, sessionSwiped, viewVars, cardVars,
                 dbProfiles, appVars, tabVars, geoVars>>

\* loadProfiles after the matches query.
LoadProfilesMatchesReturn ==
  /\ profilePass.pc = "matches"
  /\ \E ok \in BOOLEAN :
       LET professionalIds == Distinct(QueryLikers(user, profilePass.postIds, dbMatches)) IN
       IF ~ok
       THEN /\ loading' = FALSE
            /\ profilePass' = IdleProfilePass
            /\ UNCHANGED profiles
       ELSE IF professionalIds = <<>>
       THEN /\ profiles' = <<>>
            /\ loading' = FALSE
            /\ profilePass' = IdleProfilePass
       ELSE /\ profilePass' = [profilePass EXCEPT !.pc = "profiles", !.ids = professionalIds]
            /\ UNCHANGED <<profiles, loading>>
  /\ UNCHANGED <<storeVars, user, mounted, posts, currentIndex, swipedPosts, loadPass,
                 swipedLoad, pendingSwipes, nSwipes, sessionSwiped, viewVars, cardVars,
                 dbProfiles, appVars, tabVars, geoVars>>

\* loadProfiles after the profiles query.
LoadProfilesQueryReturn ==
  /\ profilePass.pc = "profiles"
  /\ \E ok \in BOOLEAN :
       IF ~ok
       THEN /\ loading' = FALSE
            /\ profilePass' = IdleProfilePass
       ELSE \E data \in QueryProfiles(profilePass.ids, dbProfiles) :
              profilePass' = [profilePass EXCEPT !.pc = "enrich", !.data = data]
            /\ UNCHANGED loading
  /\ UNCHANGED <<storeVars, user, profiles, mounted, posts, currentIndex, swipedPosts,
                 loadPass, swipedLoad, pendingSwipes, nSwipes, sessionSwiped, viewVars,
                 cardVars, dbProfiles, appVars, tabVars, geoVars>>

\* The two fetches of one profile of Promise.all return.
EnrichProfileReturn(p) ==
  /\ profilePass.pc = "enrich"
  /\ p \in Range(profilePass.data) \ profilePass.enriched
  /\ profilePass' = [profilePass EXCEPT !.enriched = @ \cup {p}]
  /\ UNCHANGED <<storeVars, homeVars, viewVars, cardVars, dbProfiles, appVars, tabVars, geoVars>>

\* Promise.all resolved: setProfiles(enrichedProfiles), setLoading(false).
LoadProfilesFinish ==
  /\ profilePass.pc = "enrich"
  /\ profilePass.enriched = Range(profilePass.data)
  /\ profiles' = [i \in 1..Len(profilePass.data) |->
                    Entry(profilePass.data[i],
                          EntryDistance(dbProfiles[user], dbProfiles[profilePass.data[i]]))]
  /\ loading' = FALSE
  /\ profilePass' = IdleProfilePass
  /\ UNCHANGED <<storeVars, user, mounted, posts, currentIndex, swipedPosts, loadPass,
                 swipedLoad, pendingSwipes, nSwipes, sessionSwiped, viewVars, cardVars,
                 dbProfiles, appVars, tabVars, geoVars>>

\* "Recharger" of the individual branch: setCurrentIndex(0); loadProfiles().
ReloadProfiles ==
  /\ mounted /\ ~loading /\ user \notin Professionals
  /\ currentIndex >= Len(profiles)
  /\ currentIndex' = 0
  /\ StartLoadProfiles
  /\ UNCHANGED <<storeVars, user, profiles, mounted, posts, swipedPosts, loadPass,
                 swipedLoad, pendingSwipes, nSwipes, sessionSwiped, viewVars, cardVars,
                 dbProfiles, appVars, tabVars, geoVars>>

\* The profiles row of user u, located at latitude lat or (0) not located.
FullName(u) == IF u = "u1" THEN "Ana" ELSE IF u = "u2" THEN "Ben" ELSE "Cleo"
ProfileRow(u, lat) ==
  [user_type |-> IF u \in Professionals THEN "professional" ELSE "individual",
   full_name |-> FullName(u),
   latitude |-> lat,
   longitude |-> IF lat = 0 THEN 0 ELSE Longitude]

\* Every profile without coordinates, no loadProfiles call in flight.
InitIndividualIdle ==
  /\ dbProfiles = [u \in Users |-> ProfileRow(u, 0)]
  /\ profilePass = IdleProfilePass

(***************************************************************************)
(* MainApp: the matches panel (Header onNotificationsClick).               *)
(***************************************************************************)
IdleMatchesPass == [pc |-> "idle", rows |-> <<>>]

\* Variant: only the rows in which the user is the actor.
RECURSIVE MatchRowsAsActor(_, _, _)
MatchRowsAsActor(u, table, k) ==
  IF k = 0 THEN <<>>
  ELSE (IF table[k].user_id = u
        THEN <<[id |-> k, user_id |-> table[k].user_id,
                target_user_id |-> table[k].target_user_id, created_at |-> k]>>
        ELSE <<>>)
       \o MatchRowsAsActor(u, table, k - 1)

\* supabase.from('matches').select('id, user_id, target_user_id, created_at')
\*   .or(`user_id.eq.${u},target_user_id.eq.${u}`).order('created_at', desc)
\* over the first k rows; row k of the table was created k-th.
RECURSIVE MatchRowsInvolving(_, _, _)
MatchRowsInvolving(u, table, k) ==
  IF k = 0 THEN <<>>
  ELSE (IF table[k].user_id = u \/ table[k].target_user_id = u
        THEN <<[id |-> k, user_id |-> table[k].user_id,
                target_user_id |-> table[k].target_user_id, created_at |-> k]>>
        ELSE <<>>)
       \o MatchRowsInvolving(u, table, k - 1)

\* m.user_id === user.id ? m.target_user_id : m.user_id
OtherOf(u, m) == IF m.user_id = u THEN m.target_user_id ELSE m.user_id

\* rows.map(...) with profileMap.get(otherId) || 'Utilisateur'; named is the
\* set of ids the profiles query returned.
WithNames(u, rows, named, profs) ==
  [i \in 1..Len(rows) |->
     [id |-> rows[i].id,
      otherUserId |-> OtherOf(u, rows[i]),
      otherUserName |-> IF OtherOf(u, rows[i]) \in named
                        THEN profs[OtherOf(u, rows[i])].full_name
                        ELSE "Utilisateur",
      createdAt |-> rows[i].created_at]]

\* onNotificationsClick up to its first query.
NotificationsClick ==
  /\ matchesPass.pc = "idle"
  /\ matchesLoading' = TRUE
  /\ matchesError' = NULL
  /\ matchesPass' = [IdleMatchesPass EXCEPT !.pc = "matches"]
  /\ UNCHANGED <<appMatches, showMatches, storeVars, homeVars, viewVars, cardVars, indivVars, tabVars, geoVars>>

\* onNotificationsClick after the matches query.
MatchesQueryReturn ==
  /\ matchesPass.pc = "matches"
  /\ \E ok \in BOOLEAN :
       LET rows == MatchRowsInvolving(user, dbMatches, Len(dbMatches)) IN
       IF ~ok
       THEN /\ matchesError' = "Impossible de charger les matches."
            /\ appMatches' = <<>>
            /\ showMatches' = TRUE
            /\ matchesLoading' = FALSE
            /\ matchesPass' = IdleMatchesPass
       ELSE IF rows = <<>>
       THEN /\ appMatches' = <<>>
            /\ showMatches' = TRUE
            /\ matchesLoading' = FALSE
            /\ matchesPass' = IdleMatchesPass
            /\ UNCHANGED matchesError
       ELSE /\ matchesPass' = [pc |-> "profiles", rows |-> rows]
            /\ UNCHANGED <<appMatches, showMatches, matchesLoading, matchesError>>
  /\ UNCHANGED <<storeVars, homeVars, viewVars, cardVars, indivVars, tabVars, geoVars>>

\* onNotificationsClick after the profiles query: an error leaves no names.
MatchesNamesReturn ==
  /\ matchesPass.pc = "profiles"
  /\ \E ok \in BOOLEAN :
       LET otherUserIds == {OtherOf(user, matchesPass.rows[i]) :
                              i \in 1..Len(matchesPass.rows)}
           named == IF ok THEN otherUserIds \cap DOMAIN dbProfiles ELSE {}
       IN /\ matchesError' = IF ok THEN matchesError
                             ELSE "Impossible de charger les profils liés aux matches."
          /\ appMatches' = WithNames(user, matchesPass.rows, named, dbProfiles)
  /\ showMatches' = TRUE
  /\ matchesLoading' = FALSE
  /\ matchesPass' = IdleMatchesPass
  /\ UNCHANGED <<storeVars, homeVars, viewVars, cardVars, indivVars, tabVars, geoVars>>

InitApp ==
  /\ appMatches = <<>>
  /\ showMatches = FALSE
  /\ matchesLoading = FALSE
  /\ matchesError = NULL
  /\ matchesPass = IdleMatchesPass

(***************************************************************************)
(* The swipe cards: PostSwipeCard (touch) and SwipeCard (touch and mouse). *)
(***************************************************************************)
PostSwipeCardThreshold == 80
SwipeCardTouchThreshold == 80
SwipeCardMouseThreshold == 100

Zero == [x |-> 0, y |-> 0]

StartKinds == {"touchstart", "mousedown"}
MoveKinds == {"touchmove", "mousemove"}
EndKinds == {"touchend", "mouseup", "mouseleave"}
TouchKinds == {"touchstart", "touchmove", "touchend"}

\* Variant: PostSwipeCard binding the mouse events as SwipeCard does.
BoundKindsEveryCard == StartKinds \cup MoveKinds \cup EndKinds

\* The events each card binds a handler to.
BoundKinds ==
  IF user \in Professionals THEN TouchKinds
  ELSE StartKinds \cup MoveKinds \cup EndKinds

\* Variant: the mouse handler with the threshold of the touch handlers.
ThresholdTouchOnly(kind) == SwipeCardTouchThreshold

\* const threshold of the end handler the event is bound to
\* (onMouseLeave={handleMouseUp}).
Threshold(kind) ==
  IF kind = "touchend"
  THEN (IF user \in Professionals THEN PostSwipeCardThreshold
        ELSE SwipeCardTouchThreshold)
  ELSE SwipeCardMouseThreshold

\* Variant: the vertical test first.
ClassifyVerticalFirst(threshold, offset) ==
  IF offset.y < -threshold THEN "super_like"
  ELSE IF Abs(offset.x) > threshold
  THEN (IF offset.x > 0 THEN "like" ELSE "pass")
  ELSE "none"

\* Variant: the vertical test inclusive of the threshold.
ClassifyInclusive(threshold, offset) ==
  IF Abs(offset.x) > threshold
  THEN (IF offset.x > 0 THEN "like" ELSE "pass")
  ELSE IF offset.y <= -threshold THEN "super_like"
  ELSE "none"

\* The if / else-if chain of the end handlers; "none" when onSwipe is not called.
Classify(threshold, offset) ==
  IF Abs(offset.x) > threshold
  THEN (IF offset.x > 0 THEN "like" ELSE "pass")
  ELSE IF offset.y < -threshold THEN "super_like"
  ELSE "none"

\* clientX / clientY of the pointer.  From the start point (200, 200) the
\* offsets reached are: every threshold and the value next to it on both
\* sides of x, both well above and well below the vertical thresholds; and
\* every vertical threshold and the value next to it, x within the thresholds.
OffsetXs == {-101, -100, -81, -80, 30, 80, 81, 95, 100, 101}
OffsetYs == {-120, -101, -100, -81, -80, -10}
StartPoints == {[x |-> 200, y |-> 200]}
Points ==
  {[x |-> 200 + dx, y |-> 200 + dy] : dx \in OffsetXs, dy \in {-120, -10}}
  \cup {[x |-> 200 + 30, y |-> 200 + dy] : dy \in OffsetYs}

\* handleTouchStart / handleMouseDown
DragStart(kind, pt) ==
  /\ CardShown
  /\ kind \in StartKinds \cap BoundKinds
  /\ isDragging' = TRUE
  /\ dragStart' = pt
  /\ UNCHANGED <<dragOffset, lastEnd, storeVars, homeVars, viewVars, indivVars, appVars, tabVars, geoVars>>

\* Variant: a move handler without the isDragging test.
DragMoveUnguarded(kind, pt) ==
  /\ CardShown
  /\ kind \in MoveKinds \cap BoundKinds
  /\ dragOffset' = [x |-> pt.x - dragStart.x, y |-> pt.y - dragStart.y]
  /\ UNCHANGED <<isDragging, dragStart, lastEnd, storeVars, homeVars, viewVars, indivVars, appVars, tabVars, geoVars>>

\* handleTouchMove / handleMouseMove
DragMove(kind, pt) ==
  /\ CardShown
  /\ kind \in MoveKinds \cap BoundKinds
  /\ dragOffset' = IF isDragging
                   THEN [x |-> pt.x - dragStart.x, y |-> pt.y - dragStart.y]
                   ELSE dragOffset
  /\ UNCHANGED <<isDragging, dragStart, lastEnd, storeVars, homeVars, viewVars, indivVars, appVars, tabVars, geoVars>>

\* handleTouchEnd / handleMouseUp (also bound to mouseleave)
DragEnd(kind) ==
  /\ CardShown
  /\ kind \in EndKinds \cap BoundKinds
  /\ IF ~isDragging
     THEN /\ lastEnd' = [kind |-> kind, emitted |-> "ignored", seq |-> 1 - lastEnd.seq]
          /\ UNCHANGED <<isDragging, dragStart, dragOffset, homeVars>>
     ELSE LET action == Classify(Threshold(kind), dragOffset) IN
          /\ lastEnd' = [kind |-> kind, emitted |-> action, seq |-> 1 - lastEnd.seq]
          /\ IF action = "none" THEN UNCHANGED homeVars ELSE HandleSwipe(action)
          /\ isDragging' = FALSE
          /\ dragOffset' = Zero
          /\ dragStart' = IF CardShown' THEN dragStart ELSE Zero
  /\ UNCHANGED <<storeVars, viewVars, indivVars, appVars, tabVars, geoVars>>

InitCard ==
  /\ isDragging = FALSE
  /\ dragStart = Zero
  /\ dragOffset = Zero
  /\ lastEnd = [kind |-> "none", emitted |-> "none", seq |-> 0]

(***************************************************************************)
(* The view counter: StoryViewerModal and PostsPage.                       *)
(***************************************************************************)
NoStory == [id |-> NONE, views |-> 0]

\* The row as a client holds it once loaded.
Snapshot(p, table) == [id |-> p, views |-> table[p].views]

RECURSIVE Snapshots(_, _)
Snapshots(ids, table) ==
  IF ids = <<>> THEN <<>>
  ELSE <<Snapshot(Head(ids), table)>> \o Snapshots(Tail(ids), table)

\* supabase.from('posts').update({ views: v }).eq('id', p)
UpdateViews(table, p, v) == [table EXCEPT ![p].views = v]

\* One view operation happened: it is logged, and counted when it wrote.
LogView(p, byOwner, via, wrote) ==
  /\ lastView.n < MaxViewOps
  /\ lastView' = [n |-> lastView.n + 1, post |-> p, byOwner |-> byOwner, via |-> via]
  /\ viewOps' = IF wrote THEN [viewOps EXCEPT ![p] = @ + 1] ELSE viewOps

\* The parent renders StoryViewerModal with new props: open, isOwner, and the
\* story object it holds (kept, or a newly loaded row `fresh`).  The effect
\* runs when a dependency [open, story, isOwner] changed, and increments the
\* views of the story it was given unless it is closed or the owner's.
ModalRender(c, open, fresh, isOwner) ==
  LET old == modal[c]
      story == IF fresh = NONE THEN old.story ELSE Snapshot(fresh, dbPosts)
      runs == open /\ story # NoStory
  IN /\ open # old.open \/ fresh # NONE \/ isOwner # old.isOwner
     /\ modal' = [modal EXCEPT ![c] = [open |-> open, story |-> story, isOwner |-> isOwner]]
     /\ IF runs
        THEN /\ LogView(story.id, isOwner, "modal", ~isOwner)
             /\ dbPosts' = IF isOwner THEN dbPosts
                           ELSE UpdateViews(dbPosts, story.id, story.views + 1)
        ELSE UNCHANGED <<dbPosts, viewOps, lastView>>
     /\ UNCHANGED <<now, ticks, dbMatches, dbApe, homeVars, pagePosts, form, cardVars, indivVars, appVars, tabVars, geoVars>>

\* Variant: a story kept up to and including its expiry time.
ListedIdsInclusive(u, table, t) ==
  LET own == {p \in DOMAIN table :
                /\ table[p].user_id = u
                /\ u \in Professionals => table[p].ape_code = NULL}
      valid == {p \in own :
                  (table[p].type = "story" /\ table[p].expires_at # NONE)
                    => table[p].expires_at >= t}
  IN FilterSeq(OrderByCreatedDesc(own, table), valid)

\* The rows PostsPage.loadPosts lists: the user's own content (a professional's
\* only without ape_code), newest first, expired stories dropped.
ListedIds(u, table, t) ==
  LET own == {p \in DOMAIN table :
                /\ table[p].user_id = u
                /\ u \in Professionals => table[p].ape_code = NULL}
      valid == {p \in own :
                  (table[p].type = "story" /\ table[p].expires_at # NONE)
                    => table[p].expires_at > t}
  IN FilterSeq(OrderByCreatedDesc(own, table), valid)

\* PostsPage.loadPosts: setPosts(validPosts).
PageLoad ==
  /\ pagePosts' = Snapshots(ListedIds(user, dbPosts, now), dbPosts)
  /\ pagePosts' # pagePosts
  /\ UNCHANGED <<storeVars, homeVars, modal, viewOps, lastView, form, cardVars, indivVars, appVars, tabVars, geoVars>>

\* PostsPage: onClick={() => incrementViews(post.id)} on a listed post.
PageClick(i) ==
  /\ i \in 1..Len(pagePosts)
  /\ LET post == pagePosts[i] IN
       /\ LogView(post.id, dbPosts[post.id].user_id = user, "page", TRUE)
       /\ dbPosts' = UpdateViews(dbPosts, post.id, post.views + 1)
  /\ UNCHANGED <<now, ticks, dbMatches, dbApe, homeVars, modal, pagePosts, form, cardVars, indivVars, appVars, tabVars, geoVars>>

InitViews ==
  /\ modal = [c \in Clients |-> [open |-> FALSE, story |-> NoStory, isOwner |-> FALSE]]
  /\ pagePosts = <<>>
  /\ viewOps = [p \in PostIds |-> 0]
  /\ lastView = [n |-> 0, post |-> NONE, byOwner |-> FALSE, via |-> "none"]
  /\ form = [postType |-> "post", selectedApeCode |-> ""]

(***************************************************************************)
(* Specifications of the professional's session.                           *)
(***************************************************************************)
\* Matches the viewer wrote in earlier sessions: at most one here.
EarlierMatches(table) ==
  {<<>>} \cup {<<MatchRow("u1", p, "like", table)>> :
                 p \in {q \in DOMAIN table : table[q].user_id # "u1"}}

\* The store: NPosts rows, created at hours 1..NPosts, read when the oldest
\* story (if any) has just expired and the newest has not.
InitStore(shapes) ==
  /\ now = StoryTTL + NPosts - 1
  /\ ticks = 0
  /\ \E sh \in [PostIds -> shapes] :
       dbPosts = [p \in PostIds |-> MakeRow(p, sh[p])]

InitHome(u) ==
  /\ user = u
  /\ profiles = <<>>
  /\ mounted = FALSE
  /\ posts = <<>>
  /\ currentIndex = 0
  /\ loading = TRUE
  /\ swipedPosts = <<>>
  /\ loadPass = IdlePass
  /\ swipedLoad = "idle"
  /\ pendingSwipes = <<>>
  /\ nSwipes = 0
  /\ sessionSwiped = {}

\* Requests of the individual u2, general or of another profession.
FeedShapes ==
  {r \in RowShapes : r.user_id = "u2" /\ r.type = "post" /\ r.ape_code # "62.01Z"}

\* Spec: the whole session (load passes, swipes, reload) over requests.
Init ==
  /\ InitStore(FeedShapes)
  /\ dbApe \in {NULL, "62.01Z"}
  /\ dbMatches \in EarlierMatches(dbPosts)
  /\ InitHome("u1")
  /\ InitViews
  /\ InitCard
  /\ InitIndividualIdle
  /\ InitApp
  /\ InitTab
  /\ InitGeo

Next ==
  \/ Mount
  \/ LoadSwipedReturn
  \/ LoadPostsApeReturn
  \/ LoadPostsQueryReturn
  \/ \E p \in PostIds : EnrichReturn(p)
  \/ LoadPostsFinish
  \/ \E a \in MatchActions : ClickSwipe(a)
  \/ \E i \in 1..MaxSwipes : InsertReturn(i)
  \/ Reload

Spec == Init /\ [][Next]_vars

\* SpecPool: the load passes alone, over every table createPost can produce.
InitPool ==
  /\ InitStore(RowShapes)
  /\ dbApe \in {NULL, "62.01Z"}
  /\ dbMatches = <<>>
  /\ InitHome("u1")
  /\ InitViews
  /\ InitCard
  /\ InitIndividualIdle
  /\ InitApp
  /\ InitTab
  /\ InitGeo

NextPool ==
  \/ Tick
  \/ Mount
  \/ LoadSwipedReturn
  \/ LoadPostsApeReturn
  \/ LoadPostsQueryReturn
  \/ \E p \in PostIds : EnrichReturn(p)
  \/ LoadPostsFinish
  \/ Reload

SpecPool == InitPool /\ [][NextPool]_vars

\* The viewer u has a match row for post p.
ActedOn(u, p, matches) ==
  \E i \in 1..Len(matches) : matches[i].user_id = u /\ matches[i].post_id = p

\* The step that ends a load pass (Promise.all resolved, setPosts).
PassProducesList == loadPass.pc = "enrich" /\ loadPass'.pc = "idle"

(***************************************************************************)
(* C1: the candidate list a load pass produces holds no post the viewer    *)
(* already has a MatchRecord for, and no post swiped in this session.      *)
(***************************************************************************)
C1_LoadExcludesActedOn ==
  [][PassProducesList =>
       \A i \in 1..Len(posts') :
         /\ ~ActedOn(user, posts'[i], dbMatches)
         /\ posts'[i] \notin sessionSwiped]_vars

\* A story whose expiry time has been reached.
Expired(row, t) == row.type = "story" /\ row.expires_at # NONE /\ row.expires_at <= t

(***************************************************************************)
(* C2: a story whose expires_at is at or before now is never in the list   *)
(* the professional is shown.                                              *)
(***************************************************************************)
C2_NoExpiredStoryShown ==
  (mounted /\ ~loading) => \A i \in 1..Len(posts) : ~Expired(dbPosts[posts[i]], now)

(***************************************************************************)
(* SpecViews: the individual u2 on PostsPage and NClients story viewers,   *)
(* over u2's posts and stories.                                            *)
(***************************************************************************)
ViewShapes == {r \in RowShapes : r.user_id = "u2" /\ r.ape_code = NULL}

InitViewsSpec ==
  /\ InitStore(ViewShapes)
  /\ dbApe = NULL
  /\ dbMatches = <<>>
  /\ InitHome("u2")
  /\ InitViews
  /\ InitCard
  /\ InitIndividualIdle
  /\ InitApp
  /\ InitTab
  /\ InitGeo

NextViews ==
  \/ \E c \in Clients, open \in BOOLEAN, fresh \in PostIds \cup {NONE}, isOwner \in BOOLEAN :
       ModalRender(c, open, fresh, isOwner)
  \/ PageLoad
  \/ \E i \in PostIds : PageClick(i)

SpecViews == InitViewsSpec /\ [][NextViews]_vars

(***************************************************************************)
(* C3: after k completed view increments on a content item its stored      *)
(* counter is its initial value (0, the column default) plus k.            *)
(***************************************************************************)
C3_ViewsCountEveryImpression ==
  \A p \in PostIds : dbPosts[p].views = viewOps[p]

(***************************************************************************)
(* C4: the stored view counter is non-negative and no step decreases it.   *)
(***************************************************************************)
C4_ViewsNeverDecrease ==
  [][\A p \in PostIds :
       dbPosts'[p].views >= 0 /\ dbPosts'[p].views >= dbPosts[p].views]_vars

(***************************************************************************)
(* C5: a view operation of the item's owner (the modal opened with         *)
(* isOwner, a click in the owner's PostsPage listing) writes no counter.   *)
(***************************************************************************)
C5_OwnerNeverWritesViews ==
  [][(lastView'.n # lastView.n /\ lastView'.byOwner) =>
       \A p \in PostIds : dbPosts'[p].views = dbPosts[p].views]_vars

(***************************************************************************)
(* SpecGesture: pointer events on the card HomePage shows.  A professional *)
(* (u1) gets PostSwipeCard over the requests loaded by loadPosts; an        *)
(* individual (u2) gets SwipeCard over a list of interested professionals  *)
(* already loaded.                                                         *)
(***************************************************************************)
GestureShapes == {r \in FeedShapes : r.ape_code = NULL}

InitGesture ==
  /\ InitStore(GestureShapes)
  /\ dbApe = "62.01Z"
  /\ dbMatches = <<>>
  /\ InitViews
  /\ InitCard
  /\ InitIndividualIdle
  /\ InitApp
  /\ InitTab
  /\ InitGeo
  /\ \/ InitHome("u1")
     \/ /\ user = "u2"
        /\ profiles \in {<<Entry("u1", NoDistance)>>,
                         <<Entry("u3", NoDistance), Entry("u1", NoDistance)>>}
        /\ mounted = TRUE
        /\ loading = FALSE
        /\ posts = <<>>
        /\ currentIndex = 0
        /\ swipedPosts = <<>>
        /\ loadPass = IdlePass
        /\ swipedLoad = "idle"
        /\ pendingSwipes = <<>>
        /\ nSwipes = 0
        /\ sessionSwiped = {}

NextGesture ==
  \/ Mount
  \/ LoadSwipedReturn
  \/ LoadPostsApeReturn
  \/ LoadPostsQueryReturn
  \/ \E p \in PostIds : EnrichReturn(p)
  \/ LoadPostsFinish
  \/ \E i \in 1..MaxSwipes : InsertReturn(i)
  \/ \E kind \in StartKinds, pt \in StartPoints : DragStart(kind, pt)
  \/ \E kind \in MoveKinds, pt \in Points : DragMove(kind, pt)
  \/ \E kind \in EndKinds : DragEnd(kind)

SpecGesture == InitGesture /\ [][NextGesture]_vars

\* A step that handles an end event; one that ends a drag in progress.
EndEvent == lastEnd'.seq # lastEnd.seq
EndOfDrag == isDragging /\ EndEvent

\* onSwipe was called in the step.
Emits == nSwipes' # nSwipes

(***************************************************************************)
(* C6: a drag that ends with |offset.x| above the threshold of the handler *)
(* that ends it emits like when offset.x > 0 and pass when offset.x < 0,   *)
(* whatever offset.y is; for the touch end of both cards and the mouse end *)
(* of SwipeCard.                                                           *)
(***************************************************************************)
C6_HorizontalWins ==
  [][(EndOfDrag /\ Abs(dragOffset.x) > Threshold(lastEnd'.kind)) =>
       /\ Emits
       /\ lastEnd'.emitted = IF dragOffset.x > 0 THEN "like" ELSE "pass"]_vars

C6_Witness ==
  /\ lastEnd.kind = "touchend" /\ lastEnd.emitted = "pass"
  /\ user \in Professionals

(***************************************************************************)
(* C7 (as the code has it): each end handler has one threshold for both    *)
(* axes, 80 for the touch handlers and 100 for the mouse handler.  A drag  *)
(* that ends with |offset.x| <= threshold and offset.y < -threshold emits  *)
(* super_like; (30, -120) emits super_like in every handler; (95, -10)     *)
(* emits like in the touch handlers and nothing in the mouse handler.      *)
(***************************************************************************)
C7_VerticalSuperLike ==
  [][EndOfDrag =>
       LET t == IF lastEnd'.kind = "touchend" THEN 80 ELSE 100 IN
         /\ (Abs(dragOffset.x) <= t /\ dragOffset.y < -t) =>
              (Emits /\ lastEnd'.emitted = "super_like")
         /\ dragOffset = [x |-> 30, y |-> -120] => lastEnd'.emitted = "super_like"
         /\ dragOffset = [x |-> 95, y |-> -10] =>
              lastEnd'.emitted = IF lastEnd'.kind = "touchend" THEN "like" ELSE "none"]_vars

C7_Witness ==
  /\ lastEnd.kind = "mouseup" /\ lastEnd.emitted = "super_like"
  /\ nSwipes = 1

(***************************************************************************)
(* C7 as stated: with a horizontal threshold of 80 and a vertical one of   *)
(* 100, |offset.x| <= 80 and offset.y < -100 emits super_like, (30, -120)  *)
(* emits super_like and (95, -10) emits like.                              *)
(***************************************************************************)
C7_AsStated ==
  [][EndOfDrag =>
       /\ (Abs(dragOffset.x) <= 80 /\ dragOffset.y < -100) =>
            lastEnd'.emitted = "super_like"
       /\ dragOffset = [x |-> 30, y |-> -120] => lastEnd'.emitted = "super_like"
       /\ dragOffset = [x |-> 95, y |-> -10] => lastEnd'.emitted = "like"]_vars

(***************************************************************************)
(* C8: a drag that ends with |offset.x| <= threshold and offset.y >=       *)
(* -threshold emits nothing: onSwipe is not called, no match row is        *)
(* written and the candidate shown stays; and after every end event the    *)
(* offset is (0, 0) and the card is idle.                                  *)
(***************************************************************************)
C8_UnresolvedDragResets ==
  [][EndEvent =>
       /\ (/\ isDragging
           /\ Abs(dragOffset.x) <= Threshold(lastEnd'.kind)
           /\ dragOffset.y >= -Threshold(lastEnd'.kind)) =>
            /\ lastEnd'.emitted = "none"
            /\ ~Emits
            /\ UNCHANGED <<dbMatches, pendingSwipes, currentIndex, posts, profiles>>
       /\ dragOffset' = Zero
       /\ ~isDragging']_vars

C8_Witness ==
  /\ lastEnd.kind = "touchend" /\ lastEnd.emitted = "none"
  /\ ~isDragging /\ dragOffset = Zero /\ CardShown

(***************************************************************************)
(* C9: onSwipe is called only by a step that takes the card from dragging  *)
(* to idle, once; so an end event while idle emits nothing and a gesture   *)
(* emits at most one action.  While the card is idle no event changes the  *)
(* offset.                                                                 *)
(***************************************************************************)
C9_OneActionPerGesture ==
  [][/\ Emits => (isDragging /\ ~isDragging' /\ nSwipes' = nSwipes + 1)
     /\ (EndEvent /\ ~isDragging) => (~Emits /\ lastEnd'.emitted = "ignored")
     /\ ~isDragging => dragOffset' = dragOffset]_vars

C9_Witness ==
  /\ lastEnd.kind = "mouseleave" /\ lastEnd.emitted = "ignored"
  /\ nSwipes = 1 /\ CardShown

(***************************************************************************)
(* C10 (as the code has it): while the card stays mounted, a drag in       *)
(* progress stays in progress and nothing is emitted until an end event    *)
(* the card binds: touchend for PostSwipeCard; touchend, mouseup or        *)
(* mouseleave for SwipeCard, whose onMouseLeave is handleMouseUp.  There   *)
(* is no timeout.                                                          *)
(***************************************************************************)
C10_DragLastsUntilEnd ==
  [][(isDragging /\ CardShown') =>
       \/ isDragging' /\ ~Emits
       \/ /\ EndEvent
          /\ lastEnd'.kind \in (IF user \in Professionals THEN {"touchend"}
                                ELSE {"touchend", "mouseup", "mouseleave"})]_vars

C10_Witness ==
  /\ lastEnd.kind = "mouseleave" /\ lastEnd.emitted = "like"
  /\ ~isDragging

(***************************************************************************)
(* C10 as stated: only an explicit end of the interaction (touchend,       *)
(* mouseup) takes the card out of dragging or resolves a swipe; the        *)
(* pointer leaving the card does not.                                      *)
(***************************************************************************)
C10_AsStated ==
  [][(isDragging /\ CardShown') =>
       \/ isDragging' /\ ~Emits
       \/ EndEvent /\ lastEnd'.kind \in {"touchend", "mouseup"}]_vars

\* The content of others whose code is c or null.
Pool(u, c) ==
  {p \in PostIds : dbPosts[p].user_id # u /\ dbPosts[p].ape_code \in {c, NULL}}

(***************************************************************************)
(* C11: for a professional with code c, the rows the posts query of        *)
(* loadPosts returns are exactly the content of other users whose code is  *)
(* c or null, and the list set at the end of the pass is that pool less    *)
(* the swipedPosts the pass filters with.  The viewer's own content and    *)
(* content of another code (47.11Z for c = 62.01Z) are never in it.        *)
(***************************************************************************)
C11_PoolIsOthersWithCodeOrNull ==
  [][/\ (loadPass.pc = "posts" /\ loadPass'.pc = "enrich") =>
          Range(loadPass'.data) = Pool(user, dbApe)
     /\ PassProducesList =>
          /\ Range(posts') = Pool(user, dbApe) \ Range(loadPass.swiped)
          /\ \A i \in 1..Len(posts') :
               /\ dbPosts[posts'[i]].user_id # user
               /\ dbPosts[posts'[i]].ape_code # "47.11Z"]_vars

C11_Witness ==
  /\ mounted /\ ~loading /\ dbApe = "62.01Z"
  /\ \E p \in Range(posts) : dbPosts[p].ape_code = "62.01Z"
  /\ \E p \in PostIds \ Range(posts) :
       dbPosts[p].ape_code = "47.11Z" \/ dbPosts[p].user_id = user

(***************************************************************************)
(* SpecProfiles: the individual u2 on HomePage.  The posts are requests of *)
(* u2 and content of the professional u1; the ledger holds what the        *)
(* professionals u1 and u3 swiped in earlier sessions; each user is        *)
(* located or not.                                                         *)
(***************************************************************************)
ProfileShapes ==
  {r \in RowShapes : r.user_id \in {"u1", "u2"} /\ r.type = "post" /\ r.ape_code = NULL}

\* The rows a professional's earlier sessions left: none, one swipe, or two likes.
SwipeHistories(a, table) ==
  LET targets == {p \in DOMAIN table : table[p].user_id # a} IN
    {<<>>}
    \cup {<<MatchRow(a, p, act, table)>> : p \in targets, act \in {"like", "pass"}}
    \cup {<<MatchRow(a, pq[1], "like", table), MatchRow(a, pq[2], "like", table)>> :
            pq \in {t \in targets \X targets : t[1] <= t[2]}}

LatitudesOf(u) == IF u = "u1" THEN {0, 45} ELSE IF u = "u2" THEN {0, 48} ELSE {0, 49}

InitProfiles ==
  /\ InitStore(ProfileShapes)
  /\ dbApe = "62.01Z"
  /\ \E h1 \in SwipeHistories("u1", dbPosts), h3 \in SwipeHistories("u3", dbPosts) :
       dbMatches = h1 \o h3
  /\ InitHome("u2")
  /\ InitViews
  /\ InitCard
  /\ \E lat \in [Users -> Latitudes] :
       /\ \A u \in Users : lat[u] \in LatitudesOf(u)
       /\ dbProfiles = [u \in Users |-> ProfileRow(u, lat[u])]
  /\ profilePass = IdleProfilePass
  /\ InitApp
  /\ InitTab
  /\ InitGeo

NextProfiles ==
  \/ MountIndividual
  \/ LoadProfilesPostsReturn
  \/ LoadProfilesMatchesReturn
  \/ LoadProfilesQueryReturn
  \/ \E p \in Users : EnrichProfileReturn(p)
  \/ LoadProfilesFinish
  \/ \E a \in MatchActions : ClickSwipe(a)
  \/ ReloadProfiles

SpecProfiles == InitProfiles /\ [][NextProfiles]_vars

\* The step that ends a loadProfiles pass with a list.
ProfilesListSet == profilePass.pc = "enrich" /\ profilePass'.pc = "idle"

(***************************************************************************)
(* C12: in the list loadProfiles sets, every entry with a distance comes   *)
(* before every entry without one, and the entries with a distance are in  *)
(* non-decreasing order of distance.                                       *)
(***************************************************************************)
C12_ProfilesRankedByDistance ==
  (mounted /\ ~loading) =>
    \A i, j \in 1..Len(profiles) :
      i < j =>
        /\ profiles[i].distance = NoDistance => profiles[j].distance = NoDistance
        /\ (profiles[i].distance # NoDistance /\ profiles[j].distance # NoDistance) =>
             profiles[i].distance <= profiles[j].distance

InsertReturns == Len(pendingSwipes') < Len(pendingSwipes)
InsertFails == InsertReturns /\ dbMatches' = dbMatches

(***************************************************************************)
(* C14: when the insert of a professional's swipe fails, handleSwipe goes  *)
(* on as after a success: currentIndex becomes the index the swipe was     *)
(* made at plus one, the post joins swipedPosts, the candidate after the   *)
(* swiped one is presented when there is one, and no error reaches the UI  *)
(* (the page stays mounted, not loading, with its list).                   *)
(***************************************************************************)
C14_FailedInsertStillAdvances ==
  [][InsertFails =>
       \E i \in 1..Len(pendingSwipes) :
         LET s == pendingSwipes[i] IN
           /\ pendingSwipes' = RemoveAt(pendingSwipes, i)
           /\ currentIndex' = s.index + 1
           /\ swipedPosts' = Append(s.swiped, s.post)
           /\ UNCHANGED <<mounted, loading, posts>>
           /\ (~loading /\ s.index + 1 < Len(posts)) =>
                (CardShown' /\ posts'[currentIndex' + 1] = posts[s.index + 2])]_vars

C14_Witness ==
  /\ nSwipes = 1 /\ pendingSwipes = <<>> /\ dbMatches = <<>>
  /\ currentIndex = 1 /\ CardShown /\ sessionSwiped # {}

(***************************************************************************)
(* C15: a swipe is recorded for the post presented when the gesture        *)
(* resolved, and the row its insert writes has user_id = the viewer,       *)
(* post_id = that post, target_user_id = the owner of that post, action =  *)
(* the outcome and matched = false; no step changes a row already written, *)
(* so matched is never true.                                               *)
(***************************************************************************)
C15_MatchRowFields ==
  [][/\ Len(pendingSwipes') > Len(pendingSwipes) =>
          /\ CardShown
          /\ pendingSwipes'[Len(pendingSwipes')].post = posts[currentIndex + 1]
          /\ pendingSwipes'[Len(pendingSwipes')].action \in MatchActions
     /\ dbMatches' # dbMatches =>
          \E i \in 1..Len(pendingSwipes) :
            /\ pendingSwipes' = RemoveAt(pendingSwipes, i)
            /\ dbMatches' = Append(dbMatches,
                 [user_id |-> user,
                  post_id |-> pendingSwipes[i].post,
                  target_user_id |-> dbPosts[pendingSwipes[i].post].user_id,
                  action |-> pendingSwipes[i].action,
                  matched |-> FALSE])
     /\ \A k \in 1..Len(dbMatches') : dbMatches'[k].matched = FALSE]_vars

C15_Witness ==
  /\ Len(dbMatches) = 2
  /\ dbMatches[1].post_id # dbMatches[2].post_id
  /\ dbMatches[2].action = "super_like"
  /\ sessionSwiped = {dbMatches[1].post_id, dbMatches[2].post_id}

(***************************************************************************)
(* SpecMatches: a signed-in user opens the matches panel of MainApp over   *)
(* the ledger earlier professional sessions left.                          *)
(***************************************************************************)
InitMatches ==
  /\ InitStore(ProfileShapes)
  /\ dbApe = "62.01Z"
  /\ \E h1 \in SwipeHistories("u1", dbPosts), h3 \in SwipeHistories("u3", dbPosts) :
       dbMatches \in {h1 \o h3, h3 \o h1}
  /\ \E u \in Users : InitHome(u)
  /\ InitViews
  /\ InitCard
  /\ InitIndividualIdle
  /\ InitApp
  /\ InitTab
  /\ InitGeo

NextMatches ==
  \/ NotificationsClick
  \/ MatchesQueryReturn
  \/ MatchesNamesReturn

SpecMatches == InitMatches /\ [][NextMatches]_vars

\* The ledger rows user u is a party of, as indices.
Involving(u) ==
  {k \in 1..Len(dbMatches) : dbMatches[k].user_id = u \/ dbMatches[k].target_user_id = u}

C17_FailedLoadShowsEmpty ==
  [][(loadPass.pc = "posts" /\ loadPass'.pc = "idle") => posts' = <<>>]_vars

(***************************************************************************)
(* SpecSession: a professional's HomePage whose tab is left and opened     *)
(* again (Mount is the effect of the new page) while a load is running.    *)
(***************************************************************************)
NextSession ==
  \/ Mount
  \/ LoadSwipedReturn
  \/ LoadPostsApeReturn
  \/ LoadPostsQueryReturn
  \/ \E p \in PostIds : EnrichReturn(p)
  \/ LoadPostsFinish
  \/ Reload
  \/ LeaveHome
  \/ StaleApeReturn
  \/ StaleQueryReturn
  \/ \E p \in PostIds : StaleEnrichReturn(p)
  \/ StaleFinish

SpecSession == Init /\ [][NextSession]_vars

CreatePost(shape) ==
  /\ Cardinality(DOMAIN dbPosts) < NPosts
  /\ LET p == Cardinality(DOMAIN dbPosts) + 1 IN
       /\ now' = p
       /\ dbPosts' = [q \in 1..p |-> IF q = p THEN MakeRow(p, shape) ELSE dbPosts[q]]
  /\ UNCHANGED <<ticks, dbMatches, dbApe, homeVars, viewVars, cardVars, indivVars,
                 appVars, tabVars, geoVars>>

InitBurst ==
  /\ now = 1
  /\ ticks = 0
  /\ \E shape \in FeedShapes : dbPosts = [p \in {1} |-> MakeRow(p, shape)]
  /\ dbApe \in {NULL, "62.01Z"}
  /\ dbMatches \in EarlierMatches(dbPosts)
  /\ InitHome("u1")
  /\ InitViews
  /\ InitCard
  /\ InitIndividualIdle
  /\ InitApp
  /\ InitTab
  /\ InitGeo

NextBurst ==
  \/ Mount
  \/ LoadSwipedReturn
  \/ LoadPostsApeReturn
  \/ LoadPostsQueryReturn
  \/ \E p \in PostIds : EnrichReturn(p)
  \/ LoadPostsFinish
  \/ \E a \in MatchActions : ClickSwipe(a)
  \/ \E i \in 1..MaxSwipes : InsertReturn(i)
  \/ Reload
  \/ \E shape \in FeedShapes : CreatePost(shape)

SpecBurst == InitBurst /\ [][NextBurst]_vars

(***************************************************************************)
(* C19: for a professional currentIndex changes only by +1, on the return  *)
(* of a swipe's insert, or to 0 on Recharger; and every entry of the list  *)
(* before currentIndex is one whose swipe has resolved in this session     *)
(* (none was skipped).                                                     *)
(***************************************************************************)
C19_StrictlySequential ==
  /\ [][currentIndex' # currentIndex =>
          \/ currentIndex' = currentIndex + 1 /\ InsertReturns
          \/ currentIndex' = 0 /\ loadPass'.pc = "ape"]_vars
  /\ []((mounted /\ ~loading) =>
          \A i \in 1..currentIndex : i <= Len(posts) => posts[i] \in sessionSwiped)

(***************************************************************************)
(* C20: the list a load pass of a professional sets is in descending order *)
(* of created_at, in whatever order the author fetches returned, and it is *)
(* set only when every author fetch of the pass has returned.              *)
(***************************************************************************)
C20_ListNewestFirst ==
  [][PassProducesList =>
       /\ \A i, j \in 1..Len(posts') :
            i < j => dbPosts[posts'[i]].created_at >= dbPosts[posts'[j]].created_at
       /\ Len(loadPass.enriched) = Len(loadPass.data)
       /\ Range(loadPass.enriched) = Range(loadPass.data)]_vars

\* Every author fetch of a pass over several rows has returned, the one of the
\* oldest row first.
C20_Witness ==
  /\ loadPass.pc = "enrich" /\ Len(loadPass.data) >= 2
  /\ Range(loadPass.enriched) = Range(loadPass.data)
  /\ loadPass.enriched[1] = loadPass.data[Len(loadPass.data)]

(***************************************************************************)
(* C21: for an individual who owns no content, loadProfiles ends at the    *)
(* return of its first query: the list is empty, loading is false, and the *)
(* pass never reaches the matches query or the profiles query.             *)
(***************************************************************************)
C21_NoContentGivesEmptyList ==
  [][(user \notin Professionals /\ QueryOwnPosts(user, dbPosts) = {}) =>
       /\ profilePass'.pc \in {"idle", "posts"}
       /\ (profilePass.pc = "posts" /\ profilePass'.pc # "posts") =>
            (profilePass' = IdleProfilePass /\ profiles' = <<>> /\ loading' = FALSE)]_vars

\* The pass of an individual without content has ended, with likes of others'
\* content in the ledger.
C21_Witness ==
  /\ user \notin Professionals /\ QueryOwnPosts(user, dbPosts) = {}
  /\ mounted /\ ~loading /\ profilePass.pc = "idle" /\ profiles = <<>>
  /\ dbMatches # <<>>

(***************************************************************************)
(* PostsPage.createPost, from the form.                                    *)
(***************************************************************************)
\* selectedApeCode: '' (nothing chosen), 'GENERAL', or a code of the list (one
\* code here); the selector is rendered for individuals only.
NoSelection == ""
FormCodes == {NoSelection, "GENERAL", "62.01Z"}
Selections(u) == IF u \in Professionals THEN {NoSelection} ELSE FormCodes

\* Variant: every kind of content given a lifetime.
ExpiresAtAnyKind(postType, t) == t + StoryTTL

\* expiresAt = postType === 'story' ? Date.now() + 24h : null
ExpiresAt(postType, t) == IF postType = "story" THEN t + StoryTTL ELSE NONE

\* Variant: the selection stored whoever the creator is.
StoredApeCodeAnyCreator(u, selectedApeCode) ==
  IF selectedApeCode = "GENERAL" THEN NULL ELSE selectedApeCode

\* ape_code: isIndividual ? (selectedApeCode === 'GENERAL' ? null : selectedApeCode) : null
StoredApeCode(u, selectedApeCode) ==
  IF u \notin Professionals
  THEN IF selectedApeCode = "GENERAL" THEN NULL ELSE selectedApeCode
  ELSE NULL

\* The form of the create modal: setPostType, setSelectedApeCode.
EditForm(postType, selectedApeCode) ==
  /\ selectedApeCode \in Selections(user)
  /\ form' = [postType |-> postType, selectedApeCode |-> selectedApeCode]
  /\ form' # form
  /\ UNCHANGED <<storeVars, homeVars, modal, pagePosts, viewOps, lastView, cardVars,
                 indivVars, appVars, tabVars, geoVars>>

\* createPost with a filled title and content.  expiresAt is computed first;
\* the image upload, when there is one, takes `wait` clock steps; the insert
\* (created_at is the store's time) may fail; on success the selection is
\* cleared and the page reloads.
SubmitCreatePost(wait) ==
  /\ ~(user \notin Professionals /\ form.selectedApeCode = NoSelection)
  /\ Cardinality(DOMAIN dbPosts) < NPosts
  /\ ticks + wait <= MaxTicks
  /\ now' = now + wait
  /\ ticks' = ticks + wait
  /\ \E ok \in BOOLEAN :
       IF ok
       THEN LET p == Cardinality(DOMAIN dbPosts) + 1
                row == [user_id |-> user, type |-> form.postType,
                        ape_code |-> StoredApeCode(user, form.selectedApeCode),
                        created_at |-> now',
                        expires_at |-> ExpiresAt(form.postType, now),
                        views |-> 0]
            IN /\ dbPosts' = [q \in 1..p |-> IF q = p THEN row ELSE dbPosts[q]]
               /\ form' = [form EXCEPT !.selectedApeCode = NoSelection]
               /\ pagePosts' = Snapshots(ListedIds(user, dbPosts', now'), dbPosts')
       ELSE UNCHANGED <<dbPosts, pagePosts, form>>
  /\ UNCHANGED <<dbMatches, dbApe, homeVars, modal, viewOps, lastView, cardVars,
                 indivVars, appVars, tabVars, geoVars>>

(***************************************************************************)
(* SpecCreate: PostsPage of the professional u1 or the individual u2 over  *)
(* a table that starts with one story of theirs, an hour from its expiry;  *)
(* they create content, list it and open it; the clock advances while a   *)
(* createPost call uploads its image.                                      *)
(***************************************************************************)
InitCreate ==
  /\ now = StoryTTL
  /\ ticks = 0
  /\ \E u \in {"u1", "u2"} :
       /\ InitHome(u)
       /\ \E shape \in {r \in RowShapes : /\ r.user_id = u /\ r.type = "story"
                                          /\ r.ape_code # "47.11Z"} :
            dbPosts = [p \in {1} |-> MakeRow(p, shape)]
  /\ dbApe = NULL
  /\ dbMatches = <<>>
  /\ InitViews
  /\ InitCard
  /\ InitIndividualIdle
  /\ InitApp
  /\ InitTab
  /\ InitGeo

NextCreate ==
  \/ \E postType \in PostTypes, selectedApeCode \in FormCodes :
       EditForm(postType, selectedApeCode)
  \/ \E wait \in 0..1 : SubmitCreatePost(wait)
  \/ PageLoad
  \/ \E i \in PostIds : PageClick(i)

SpecCreate == InitCreate /\ [][NextCreate]_vars

\* The rows a step inserts.
Inserted == DOMAIN dbPosts' \ DOMAIN dbPosts

(***************************************************************************)
(* C22: a row inserted as a story has expires_at 24 hours after the time   *)
(* createPost ran, a row inserted as a post has none; no step changes the  *)
(* expires_at or the type of a stored row or removes it, and a story that  *)
(* has expired is expired after every step.                                *)
(***************************************************************************)
C22_ExpiryFixedAtCreation ==
  [][/\ \A p \in Inserted :
          /\ dbPosts'[p].type = "story" => dbPosts'[p].expires_at = now + StoryTTL
          /\ dbPosts'[p].type = "post" => dbPosts'[p].expires_at = NONE
     /\ \A p \in DOMAIN dbPosts :
          /\ p \in DOMAIN dbPosts'
          /\ dbPosts'[p].expires_at = dbPosts[p].expires_at
          /\ dbPosts'[p].type = dbPosts[p].type
          /\ Expired(dbPosts[p], now) => Expired(dbPosts'[p], now')]_vars

\* The story of the start has expired and is still stored; a story created
\* since, whose upload took a clock step, is active and has been opened.
C22_Witness ==
  /\ Expired(dbPosts[1], now)
  /\ \E p \in DOMAIN dbPosts \ {1} :
       /\ dbPosts[p].type = "story" /\ dbPosts[p].expires_at > now
       /\ dbPosts[p].created_at + StoryTTL > dbPosts[p].expires_at
       /\ dbPosts[p].views > 0

(***************************************************************************)
(* C23: the ape_code of an inserted row is non-null exactly when the       *)
(* creator is an individual whose selection is a profession code; it is    *)
(* null for the general request and for every row a professional inserts.  *)
(***************************************************************************)
C23_CodeOnlyFromIndividualChoice ==
  [][\A p \in Inserted :
       /\ dbPosts'[p].ape_code # NULL <=>
            (user \notin Professionals /\ form.selectedApeCode \notin {NoSelection, "GENERAL"})
       /\ dbPosts'[p].ape_code # NULL => dbPosts'[p].ape_code = form.selectedApeCode
       /\ dbPosts'[p].ape_code \in ApeCodes \cup {NULL}]_vars

\* An individual's request carrying the selected code has been inserted.
C23_Witness ==
  /\ user \notin Professionals
  /\ \E p \in DOMAIN dbPosts \ {1} :
       dbPosts[p].ape_code = "62.01Z" /\ dbPosts[p].user_id = user

\* The ids of the rows PostsPage shows.
PageIds(list) == {list[i].id : i \in 1..Len(list)}

(***************************************************************************)
(* C24: the list PostsPage.loadPosts sets holds, of the user's rows, every *)
(* post and exactly the stories with now < expires_at (a story whose       *)
(* expires_at equals now is left out); the rows left out stay in the       *)
(* store.                                                                  *)
(***************************************************************************)
C24_ListingDropsExpiredStories ==
  [][/\ pagePosts' # pagePosts =>
          PageIds(pagePosts') =
            {p \in DOMAIN dbPosts' :
               /\ dbPosts'[p].user_id = user
               /\ dbPosts'[p].type = "post" \/ now' < dbPosts'[p].expires_at}
     /\ DOMAIN dbPosts \subseteq DOMAIN dbPosts']_vars

\* The story of the start, listed before, is left out of the list at the hour
\* of its expiry and is still stored; a post is listed.
C24_Witness ==
  /\ dbPosts[1].type = "story" /\ dbPosts[1].expires_at = now
  /\ 1 \notin PageIds(pagePosts)
  /\ \E p \in PageIds(pagePosts) : dbPosts[p].type = "post"

(***************************************************************************)
(* SpecDistance: the three calculateDistance copies applied to two points  *)
(* of a grid that has both hemispheres, a pole and the antimeridian.       *)
(***************************************************************************)
GridLatitudes == {-34, 0, 48, 49, 90}
GridLongitudes == {-180, 2, 3, 151}
GeoPoints == [lat : GridLatitudes, lon : GridLongitudes]
Pages == {"home", "map", "discover"}

\* The copy of calculateDistance a page calls.
DistanceOn(page, a, b) ==
  IF page = "home" THEN calculateDistance(a.lat, a.lon, b.lat, b.lon)
  ELSE IF page = "map" THEN calculateDistanceMap(a.lat, a.lon, b.lat, b.lon)
  ELSE calculateDistanceDiscover(a.lat, a.lon, b.lat, b.lon)

Measure(page) ==
  /\ geo' = [geo EXCEPT !.page = page, !.km = DistanceOn(page, geo.a, geo.b)]
  /\ geo' # geo
  /\ UNCHANGED <<storeVars, homeVars, viewVars, cardVars, indivVars, appVars, tabVars,
                 mapPage>>

InitDistance ==
  /\ InitStore(FeedShapes)
  /\ dbApe = NULL
  /\ dbMatches = <<>>
  /\ InitHome("u2")
  /\ InitViews
  /\ InitCard
  /\ InitIndividualIdle
  /\ InitApp
  /\ InitTab
  /\ \E a, b \in GeoPoints : geo = [a |-> a, b |-> b, page |-> "none", km |-> NoDistance]
  /\ mapPage = InitMapPage

NextDistance == \E page \in Pages : Measure(page)

SpecDistance == InitDistance /\ [][NextDistance]_vars

(***************************************************************************)
(* C25: the distance a page computes from a to b is the one it computes    *)
(* from b to a, is 0 when a = b, and is the one the two other pages        *)
(* compute for the same points.                                            *)
(***************************************************************************)
C25_DistanceSymmetric ==
  geo.page # "none" =>
    /\ geo.km = DistanceOn(geo.page, geo.b, geo.a)
    /\ geo.a = geo.b => geo.km = 0
    /\ \A page \in Pages : geo.km = DistanceOn(page, geo.a, geo.b)

\* A distance measured between points of different latitude and longitude.
C25_Witness ==
  /\ geo.page = "map" /\ geo.km > 0
  /\ geo.a.lat # geo.b.lat /\ geo.a.lon # geo.b.lon

(***************************************************************************)
(* C26: every professional in the list loadProfiles sets has a match row   *)
(* with action like (or super_like) on one of the viewer's posts; one      *)
(* whose rows on the viewer's posts are all pass is not in it.             *)
(***************************************************************************)
C26_OnlyLikersPresented ==
  [][ProfilesListSet =>
       \A i \in 1..Len(profiles') :
         \E k \in 1..Len(dbMatches) :
           /\ dbMatches[k].user_id = profiles'[i].id
           /\ dbMatches[k].target_user_id = user
           /\ dbMatches[k].post_id \in PostIds
           /\ dbPosts[dbMatches[k].post_id].user_id = user
           /\ dbMatches[k].action \in {"like", "super_like"}]_vars

(***************************************************************************)
(* C27: in a professional's session neither the return of loadSwipedPosts  *)
(* nor the return of a swipe's insert removes an id from swipedPosts, and  *)
(* after a swipe has resolved swipedPosts holds every post swiped in the   *)
(* session.                                                                *)
(***************************************************************************)
C27_SwipedPostsKeepsBothSources ==
  [][mounted =>
       /\ Range(swipedPosts) \subseteq Range(swipedPosts')
       /\ InsertReturns => sessionSwiped' \subseteq Range(swipedPosts')]_vars

(***************************************************************************)
(* C28: currentIndex is at least 0 and at most the length of the list the  *)
(* page presents (posts for a professional, profiles for an individual).   *)
(***************************************************************************)
C28_IndexWithinList ==
  /\ currentIndex >= 0
  /\ currentIndex <= (IF user \in Professionals THEN Len(posts) ELSE Len(profiles))

(***************************************************************************)
(* SpecLive: HomePage of the professional u1 or of the individual u2, with *)
(* every store request of a load pass returning eventually (weak fairness  *)
(* of each step that follows an await of loadPosts and loadProfiles).  The *)
(* individual goes through the list and reloads; the professional reloads  *)
(* the lists that come out empty.                                          *)
(***************************************************************************)
InitLive ==
  /\ InitStore(ProfileShapes)
  /\ dbApe \in {NULL, "62.01Z"}
  /\ dbMatches \in EarlierMatches(dbPosts)
  /\ \E u \in {"u1", "u2"} : InitHome(u)
  /\ InitViews
  /\ InitCard
  /\ InitIndividualIdle
  /\ InitApp
  /\ InitTab
  /\ InitGeo

NextLive ==
  \/ Mount
  \/ LoadSwipedReturn
  \/ LoadPostsApeReturn
  \/ LoadPostsQueryReturn
  \/ \E p \in PostIds : EnrichReturn(p)
  \/ LoadPostsFinish
  \/ Reload
  \/ MountIndividual
  \/ LoadProfilesPostsReturn
  \/ LoadProfilesMatchesReturn
  \/ LoadProfilesQueryReturn
  \/ \E p \in Users : EnrichProfileReturn(p)
  \/ LoadProfilesFinish
  \/ ReloadProfiles
  \/ \E a \in MatchActions : user \notin Professionals /\ ClickSwipe(a)

RequestsReturn ==
  /\ WF_vars(LoadPostsApeReturn)
  /\ WF_vars(LoadPostsQueryReturn)
  /\ \A p \in PostIds : WF_vars(EnrichReturn(p))
  /\ WF_vars(LoadPostsFinish)
  /\ WF_vars(LoadProfilesPostsReturn)
  /\ WF_vars(LoadProfilesMatchesReturn)
  /\ WF_vars(LoadProfilesQueryReturn)
  /\ \A p \in Users : WF_vars(EnrichProfileReturn(p))
  /\ WF_vars(LoadProfilesFinish)

SpecLive == InitLive /\ [][NextLive]_vars /\ RequestsReturn

(***************************************************************************)
(* C29: a loadPosts or loadProfiles pass that has started ends, on every   *)
(* path, with the loading flag false.                                      *)
(***************************************************************************)
C29_LoadingEventuallyCleared ==
  /\ (loadPass.pc # "idle") ~> (loadPass.pc = "idle" /\ ~loading)
  /\ (profilePass.pc # "idle") ~> (profilePass.pc = "idle" /\ ~loading)

\* A pass over a non-empty pool has ended on an error path, loading cleared.
C29_Witness ==
  /\ mounted /\ ~loading /\ loadPass.pc = "idle" /\ posts = <<>>
  /\ dbApe # NULL /\ QueryPosts(user, dbApe, dbPosts) # <<>>
  /\ swipedPosts = <<>> /\ swipedLoad = "done"

(***************************************************************************)
(* MapPage: geolocation and loadProfessionals.                             *)
(***************************************************************************)
\* profile?.latitude && profile?.longitude ? { lat, lng } : null
ProfileLocation(row) ==
  IF row.latitude # 0 /\ row.longitude # 0
  THEN <<row.latitude, row.longitude>>
  ELSE NoLocation

\* referenceLocation = userLocation || (profile location or null)
ReferenceLocation(userLocation, row) ==
  IF userLocation # NoLocation THEN userLocation ELSE ProfileLocation(row)

\* if (referenceLocation && lat && lng) distance = calculateDistance(...)
MapDistance(ref, prof) ==
  IF ref # NoLocation /\ prof.latitude # 0 /\ prof.longitude # 0
  THEN calculateDistanceMap(ref[1], ref[2], prof.latitude, prof.longitude)
  ELSE NoDistance

\* supabase.from('profiles').select('*').in('user_type', [...]).neq('id', profile.id)
QueryProfessionals(viewer, rows) ==
  Orderings({p \in DOMAIN rows : rows[p].user_type = "professional" /\ p # viewer})

\* enrichedProfiles, then .filter(p => p.profile.id !== profile?.id)
RECURSIVE MapEntries(_, _, _, _)
MapEntries(data, ref, rows, viewer) ==
  IF data = <<>> THEN <<>>
  ELSE (IF Head(data) # viewer
        THEN <<Entry(Head(data), MapDistance(ref, rows[Head(data)]))>>
        ELSE <<>>)
       \o MapEntries(Tail(data), ref, rows, viewer)

\* Array.prototype.sort((a, b) => (a.distance || 0) - (b.distance || 0)): stable.
RECURSIVE InsertByDistance(_, _)
InsertByDistance(e, sorted) ==
  IF sorted = <<>> THEN <<e>>
  ELSE IF Head(sorted).distance <= e.distance
       THEN <<Head(sorted)>> \o InsertByDistance(e, Tail(sorted))
       ELSE <<e>> \o sorted

RECURSIVE SortByDistance(_)
SortByDistance(entries) ==
  IF entries = <<>> THEN <<>>
  ELSE InsertByDistance(entries[Len(entries)],
                        SortByDistance(SubSeq(entries, 1, Len(entries) - 1)))

\* Variant: one sort over every entry, a missing distance counting as 0.
SortedProfilesTogether(entries) ==
  LET Keyed(e) == [e EXCEPT !.distance = IF @ = NoDistance THEN 0 ELSE @]
      keyed == SortByDistance([i \in 1..Len(entries) |->
                 [id |-> entries[i].id, distance |-> Keyed(entries[i]).distance,
                  was |-> entries[i].distance]])
  IN [i \in 1..Len(keyed) |-> Entry(keyed[i].id, keyed[i].was)]

\* sortedProfiles = [...withDistance (sorted), ...withoutDistance]
SortedProfiles(entries) ==
  LET withDistance == {e \in Range(entries) : e.distance # NoDistance}
      withoutDistance == {e \in Range(entries) : e.distance = NoDistance}
  IN SortByDistance(FilterSeq(entries, withDistance)) \o FilterSeq(entries, withoutDistance)

\* loadProfessionals up to its first await.
StartLoadProfessionals(page) ==
  [page EXCEPT !.loading = TRUE,
               !.passes = Append(@, ReferenceLocation(page.userLocation, dbProfiles[user]))]

\* Mount: the geolocation effect (getCurrentPosition where the browser has
\* it, otherwise the profile's position) and the loading effect.
MapMount(hasGeolocation) ==
  /\ ~mapPage.mounted
  /\ LET fallback == ProfileLocation(dbProfiles[user])
         page == [mapPage EXCEPT !.mounted = TRUE, !.geoPending = hasGeolocation]
         first == StartLoadProfessionals(page)
     IN mapPage' = IF ~hasGeolocation /\ fallback # NoLocation
                   THEN StartLoadProfessionals([first EXCEPT !.userLocation = fallback])
                   ELSE first
  /\ UNCHANGED <<storeVars, homeVars, viewVars, cardVars, indivVars, appVars, tabVars, geo>>

\* The geolocation callback: the position found, or on error the profile's;
\* a changed userLocation runs the loading effect again.
MapLocate(ok, position) ==
  /\ mapPage.geoPending
  /\ LET fallback == ProfileLocation(dbProfiles[user])
         found == IF ok THEN position ELSE fallback
         page == [mapPage EXCEPT !.geoPending = FALSE]
     IN mapPage' = IF found # NoLocation
                   THEN StartLoadProfessionals([page EXCEPT !.userLocation = found])
                   ELSE page
  /\ UNCHANGED <<storeVars, homeVars, viewVars, cardVars, indivVars, appVars, tabVars, geo>>

\* A loadProfessionals call after its awaits: an error clears loading; else
\* the rows are enriched, filtered, sorted and set.
MapLoadReturn(i) ==
  /\ i \in 1..Len(mapPage.passes)
  /\ \E ok \in BOOLEAN :
       IF ~ok
       THEN mapPage' = [mapPage EXCEPT !.loading = FALSE, !.passes = RemoveAt(@, i)]
       ELSE \E data \in QueryProfessionals(user, dbProfiles) :
              mapPage' = [mapPage EXCEPT
                            !.loading = FALSE,
                            !.passes = RemoveAt(@, i),
                            !.data = data,
                            !.professionals =
                              SortedProfiles(MapEntries(data, mapPage.passes[i],
                                                        dbProfiles, user))]
  /\ UNCHANGED <<storeVars, homeVars, viewVars, cardVars, indivVars, appVars, tabVars, geo>>

(***************************************************************************)
(* SpecMap: MapPage of the individual u2 or the professional u1; each user *)
(* has coordinates or none, u1 and u3 can be equally far from u2.          *)
(***************************************************************************)
MapLatitudesOf(u) == IF u = "u1" THEN {0, 45, 47} ELSE IF u = "u2" THEN {0, 48} ELSE {0, 49}
GeoFixes == {<<48, Longitude>>, <<45, Longitude>>}

InitMap ==
  /\ InitStore(FeedShapes)
  /\ dbApe = NULL
  /\ dbMatches = <<>>
  /\ \E u \in {"u1", "u2"} : InitHome(u)
  /\ InitViews
  /\ InitCard
  /\ \E lat \in [Users -> 0..49] :
       /\ \A u \in Users : lat[u] \in MapLatitudesOf(u)
       /\ dbProfiles = [u \in Users |-> ProfileRow(u, lat[u])]
  /\ profilePass = IdleProfilePass
  /\ InitApp
  /\ InitTab
  /\ InitGeo

NextMap ==
  \/ \E hasGeolocation \in BOOLEAN : MapMount(hasGeolocation)
  \/ \E ok \in BOOLEAN, position \in GeoFixes : MapLocate(ok, position)
  \/ \E i \in 1..Len(mapPage.passes) : MapLoadReturn(i)

SpecMap == InitMap /\ [][NextMap]_vars

\* The position of professional id in the rows last retrieved.
Retrieved(id) == CHOOSE i \in 1..Len(mapPage.data) : mapPage.data[i] = id

(***************************************************************************)
(* C30: the list MapPage sets never holds the viewer; every entry with a   *)
(* distance comes before every entry without; the entries with a distance  *)
(* are in non-decreasing order of it; the entries without are in the order *)
(* the query returned them.                                                *)
(***************************************************************************)
C30_MapListOrdered ==
  LET list == mapPage.professionals IN
  /\ \A i \in 1..Len(list) : list[i].id # user
  /\ \A i, j \in 1..Len(list) :
       i < j =>
         /\ list[i].distance = NoDistance => list[j].distance = NoDistance
         /\ (list[i].distance # NoDistance /\ list[j].distance # NoDistance) =>
              list[i].distance <= list[j].distance
         /\ (list[i].distance = NoDistance /\ list[j].distance = NoDistance) =>
              Retrieved(list[i].id) < Retrieved(list[j].id)

\* A list of two has been set: the nearer professional was retrieved last
\* and is listed first.
C30_Witness ==
  LET list == mapPage.professionals IN
  /\ ~mapPage.loading /\ Len(list) = 2
  /\ list[1].distance # NoDistance /\ list[1].distance < list[2].distance
  /\ mapPage.data[1] = list[2].id

=============================================================================
